---- MODULE Spec2Model ----
(***************************************************************************)
(* Model of src/app/app.py: the /askquestion request handler ask_question  *)
(* with its helpers _scrub_headers and compute_llm_cost_usd, the three     *)
(* process-wide metric instruments, the structured log stream and the two  *)
(* tracing backends (OpenTelemetry and Langfuse).                          *)
(*                                                                         *)
(* Every request r runs the handler as a sequence of steps; pc[r] is the   *)
(* position of r in the handler.  Each tracing backend keeps, per request  *)
(* context, its own stack of open ("current") spans.  Telemetry calls do   *)
(* not raise; the request body parser, the inference call and the reading  *)
(* of its reply can.  Wall-clock values (latency_ms) are not modelled.     *)
(***************************************************************************)
EXTENDS Integers, Sequences, FiniteSets, TLC

(* ------------------------------ bounds -------------------------------- *)

\* Number of request contexts of the model.
NumReq == 2
\* Largest token count the inference collaborator reports.
MaxTok == 2

Reqs == 1..NumReq

(* ------------------------- values and helpers ------------------------- *)

\* Python's None, for values that are otherwise strings.
None == "<None>"
\* A log event or span that carries no status field.
NoStatus == 0
\* The empty attribute mapping.
EmptyMap == [k \in {} |-> None]

\* bool(s) for a string-or-None value.
Truthy(s) == s # None /\ s # ""

\* dict.update: the entries of new override those of old.
Merge(old, new) == new @@ old

Last(s) == s[Len(s)]
Front(s) == SubSeq(s, 1, Len(s) - 1)

(* ----------------------- header names, str.lower ---------------------- *)

UpperChars == << "A", "B", "C", "D", "E", "F", "G", "H", "I", "J", "K", "L", "M",
                 "N", "O", "P", "Q", "R", "S", "T", "U", "V", "W", "X", "Y", "Z" >>
LowerChars == << "a", "b", "c", "d", "e", "f", "g", "h", "i", "j", "k", "l", "m",
                 "n", "o", "p", "q", "r", "s", "t", "u", "v", "w", "x", "y", "z" >>

\* str.lower on one character.
LowerChar(c) ==
    IF \E i \in DOMAIN UpperChars : UpperChars[i] = c
    THEN LowerChars[CHOOSE i \in DOMAIN UpperChars : UpperChars[i] = c]
    ELSE c

\* str.lower on a header name, a sequence of characters.
Lower(name) == [i \in DOMAIN name |-> LowerChar(name[i])]

\* Header names as they can arrive, in several letter cases.
H_Authorization == << "A","u","t","h","o","r","i","z","a","t","i","o","n" >>
H_cookie        == << "c","o","o","k","i","e" >>
H_COOKIE        == << "C","O","O","K","I","E" >>
H_XApiKey       == << "X","-","A","p","i","-","K","e","y" >>
H_ProxyAuth     == << "P","r","o","x","y","-","A","u","t","h","o","r","i","z","a","t","i","o","n" >>
H_XCustom       == << "X","-","C","u","s","t","o","m" >>
H_XForwardedFor == << "X","-","F","o","r","w","a","r","d","e","d","-","F","o","r" >>

REDACTED == "[REDACTED]"

\* The set literal of line 152.
redact == { << "a","u","t","h","o","r","i","z","a","t","i","o","n" >>,
            << "c","o","o","k","i","e" >>,
            << "x","-","a","p","i","-","k","e","y" >>,
            << "p","r","o","x","y","-","a","u","t","h","o","r","i","z","a","t","i","o","n" >> }

\* A scrubber that compares the header name as received with the lower-case set.
ScrubHeadersCaseSensitive(h) ==
    IF DOMAIN h = {} THEN EmptyMap
    ELSE [k \in DOMAIN h |-> IF k \notin redact THEN h[k] ELSE REDACTED]

\* A scrubber that drops the sensitive entries instead of masking them.
ScrubHeadersDropping(h) ==
    IF DOMAIN h = {} THEN EmptyMap
    ELSE [k \in { n \in DOMAIN h : Lower(n) \notin redact } |-> h[k]]

\* _scrub_headers(h)
ScrubHeaders(h) ==
    IF DOMAIN h = {} THEN EmptyMap
    ELSE [k \in DOMAIN h |-> IF Lower(k) \notin redact THEN h[k] ELSE REDACTED]

\* str(d) of a dict: the printed form of the mapping.
Str(d) == << "str", d >>

\* request.headers.get(name, default): header lookup ignores letter case.
HeaderGet(h, name, default) ==
    IF \E k \in DOMAIN h : Lower(k) = Lower(name)
    THEN h[CHOOSE k \in DOMAIN h : Lower(k) = Lower(name)]
    ELSE default

RemoteAddr == "10.0.0.1"

(* ------------------------- exception classes -------------------------- *)

\* The direct base class of each exception class that can be raised inside the
\* handler's try block (openai's hierarchy of line 12, werkzeug's BadRequest
\* raised by get_json, and builtins).
BaseOf(c) ==
    CASE c = "RateLimitError"      -> "APIStatusError"
      [] c = "AuthenticationError" -> "APIStatusError"
      [] c = "APIStatusError"      -> "APIError"
      [] c = "APIConnectionError"  -> "APIError"
      [] c = "APIError"            -> "OpenAIError"
      [] c = "OpenAIError"         -> "Exception"
      [] c = "BadRequest"          -> "HTTPException"
      [] c = "HTTPException"       -> "Exception"
      [] c = "AttributeError"      -> "Exception"
      [] c = "RuntimeError"        -> "Exception"
      [] OTHER                     -> "BaseException"

RECURSIVE IsSubclass(_, _)
\* issubclass(c, t)
IsSubclass(c, t) ==
    IF c = t THEN TRUE
    ELSE IF c = "BaseException" THEN FALSE
    ELSE IsSubclass(BaseOf(c), t)

NoExc == "<no exception>"

\* The except clauses of the handler's try statement, in source order.
ExceptClauses == << "RateLimitError", "AuthenticationError", "APIError", "Exception" >>

\* The first clause of a clause list that matches exception class e, or NoExc.
FirstMatch(clauses, e) ==
    IF \E i \in DOMAIN clauses : IsSubclass(e, clauses[i])
    THEN clauses[CHOOSE i \in DOMAIN clauses :
                    /\ IsSubclass(e, clauses[i])
                    /\ \A j \in DOMAIN clauses : j < i => ~IsSubclass(e, clauses[j])]
    ELSE NoExc

\* A try statement whose generic API clause comes before its specialisations.
HandlerGenericFirst(e) ==
    FirstMatch(<< "APIError", "RateLimitError", "AuthenticationError", "Exception" >>, e)

\* A try statement without the catch-all clause.
HandlerNoCatchAll(e) ==
    FirstMatch(<< "RateLimitError", "AuthenticationError", "APIError" >>, e)

\* The except clause that handles exception class e (lines 377, 386, 395, 404).
Handler(e) == FirstMatch(ExceptClauses, e)

\* Except clauses that log and leave status_code at the value it has by default.
ClauseEffectKeepsDefault(clause, e) ==
    [status |-> 500,
     event |-> IF clause = "RateLimitError" THEN "openai_rate_limited"
               ELSE IF clause = "AuthenticationError" THEN "openai_auth_error"
               ELSE IF clause = "APIError" THEN "openai_api_error"
               ELSE "unhandled_exception",
     output |-> [error |-> "server_error", detail |-> << "str", e >>],
     lf_status |-> "server_error", error_type |-> clause]

\* What each except clause does: the status code, the exception log event, the
\* Langfuse span output and status, and the Langfuse trace error type.
ClauseEffect(clause, e) ==
    CASE clause = "RateLimitError" ->
            [status |-> 429, event |-> "openai_rate_limited",
             output |-> [error |-> "rate_limit", detail |-> << "str", e >>],
             lf_status |-> "rate_limited", error_type |-> "RateLimitError"]
      [] clause = "AuthenticationError" ->
            [status |-> 401, event |-> "openai_auth_error",
             output |-> [error |-> "auth_error", detail |-> << "str", "Invalid or missing API key." >>],
             lf_status |-> "auth_error", error_type |-> "AuthenticationError"]
      [] clause = "APIError" ->
            [status |-> 502, event |-> "openai_api_error",
             output |-> [error |-> "openai_api_error", detail |-> << "str", e >>],
             lf_status |-> "openai_api_error", error_type |-> "APIError"]
      [] OTHER ->
            [status |-> 500, event |-> "unhandled_exception",
             output |-> [error |-> "server_error", detail |-> << "str", e >>],
             lf_status |-> "server_error", error_type |-> "Exception"]

(* ------------------------------ pricing ------------------------------- *)

\* Pricing configurations (lines 161-163).  Prices are in micro-USD per 1000
\* tokens, the scale factor in hundredths; costs are in micro-USD, that is,
\* in units of the sixth decimal the code rounds to.
PricingConfigs ==
    { [price_in |-> 0, price_out |-> 0, scale |-> 100],
      [price_in |-> 1000000, price_out |-> 2000000, scale |-> 200] }

\* round(n / d) to the nearest integer, ties to even, for n >= 0 and d > 0.
RoundDiv(n, d) ==
    LET q == n \div d
        rem == n % d
    IN  IF 2 * rem < d THEN q
        ELSE IF 2 * rem > d THEN q + 1
        ELSE IF q % 2 = 0 THEN q ELSE q + 1

\* A cost function whose total is the exact sum of the two products, rounded once.
compute_llm_cost_usd_RoundOnce(prompt_tokens, completion_tokens, pr) ==
    LET input_cost  == RoundDiv(prompt_tokens * pr.price_in, 1000)
        output_cost == RoundDiv(completion_tokens * pr.price_out, 1000)
        total_cost  == RoundDiv(prompt_tokens * pr.price_in
                                + completion_tokens * pr.price_out, 1000)
    IN  [input |-> input_cost, output |-> output_cost, total |-> total_cost]

\* compute_llm_cost_usd(prompt_tokens, completion_tokens) under pricing pr.
\* Amounts are whole micro-dollars: round(x, 6) is RoundDiv to the unit.
compute_llm_cost_usd(prompt_tokens, completion_tokens, pr) ==
    LET input_cost  == RoundDiv(prompt_tokens * pr.price_in, 1000)
        output_cost == RoundDiv(completion_tokens * pr.price_out, 1000)
        total_cost  == RoundDiv(input_cost + output_cost, 1)
    IN  [input |-> input_cost, output |-> output_cost, total |-> total_cost]

\* A scaling step that passes the cost through.
ScaleCostIgnored(cost, pr) == cost

\* round(cost * COST_SPLUNK_SCALE, 6) (lines 315-317).
ScaleCost(cost, pr) == RoundDiv(cost * pr.scale, 100)

\* Pricing configurations with fractional per-token costs and a fractional scale.
CostConfigs ==
    PricingConfigs
    \cup { [price_in |-> 1400, price_out |-> 1400, scale |-> 100],
           [price_in |-> 1400, price_out |-> 2400, scale |-> 120] }

(* ------------------- the inference collaborator's reply ---------------- *)

Answers == { None, "42" }

\* A reply is a completion (kind "ok") or the class of the exception raised.
\* usage_kind tells what completion.usage is: absent, a mapping, or an object
\* with attributes and no get method.  A count of 0 is a zero or missing field.
OkReplies ==
    { [kind |-> "ok", answer |-> a, usage_kind |-> "none",
       prompt_tokens |-> 0, completion_tokens |-> 0, total_tokens |-> 0] : a \in Answers }
    \cup
    { [kind |-> "ok", answer |-> a, usage_kind |-> uk,
       prompt_tokens |-> p, completion_tokens |-> c, total_tokens |-> t] :
         a \in Answers, uk \in {"dict", "object"}, p \in 0..MaxTok, c \in 0..MaxTok,
         t \in 0..(2 * MaxTok) }

FailureClasses ==
    { "RateLimitError", "AuthenticationError", "APIConnectionError", "APIError", "RuntimeError" }

FailReplies ==
    { [kind |-> k, answer |-> None, usage_kind |-> "none",
       prompt_tokens |-> 0, completion_tokens |-> 0, total_tokens |-> 0] : k \in FailureClasses }

Replies == { rp \in OkReplies : rp.total_tokens \in {0, rp.prompt_tokens + rp.completion_tokens} }
           \cup FailReplies

NoReply == [kind |-> "none", answer |-> None, usage_kind |-> "none",
            prompt_tokens |-> 0, completion_tokens |-> 0, total_tokens |-> 0]

\* A completion that used 100 prompt tokens and 50 completion tokens.
ExampleReply == [kind |-> "ok", answer |-> "42", usage_kind |-> "dict",
                 prompt_tokens |-> 100, completion_tokens |-> 50, total_tokens |-> 150]

\* The result of an expression that raised AttributeError.
Raised == -1

\* int(getattr(usage, f, 0) or usage.get(f, 0) or 0) for a field whose value in
\* the reply is v (lines 292-293).
ReadField(usage_kind, v) ==
    CASE usage_kind = "none"   -> 0
      [] usage_kind = "dict"   -> v
      [] usage_kind = "object" -> IF v # 0 THEN v ELSE Raised

\* Lines 291-294: the three counts read from the reply, in order; reading stops
\* at the first expression that raises.
ReadUsage(rp) ==
    LET p == ReadField(rp.usage_kind, rp.prompt_tokens)
        c == ReadField(rp.usage_kind, rp.completion_tokens)
        t == ReadField(rp.usage_kind, rp.total_tokens)
    IN  [raised |-> p = Raised \/ c = Raised \/ t = Raised,
         prompt_tokens |-> p,
         completion_tokens |-> c,
         total_tokens |-> IF t = 0 THEN p + c ELSE t]

\* Token increments made as soon as each count has been read.
TokenAddsEager(u) ==
    (IF u.prompt_tokens > 0 THEN << [type |-> "prompt", n |-> u.prompt_tokens] >> ELSE << >>)
    \o (IF u.completion_tokens > 0
        THEN << [type |-> "completion", n |-> u.completion_tokens] >> ELSE << >>)

\* Lines 297-300: the llm.tokens increments of a request whose usage is u.
TokenAdds(u) ==
    IF u.raised THEN << >>
    ELSE (IF u.prompt_tokens # 0
          THEN << [type |-> "prompt", n |-> u.prompt_tokens] >> ELSE << >>)
         \o (IF u.completion_tokens # 0
             THEN << [type |-> "completion", n |-> u.completion_tokens] >> ELSE << >>)

(* --------------------------- request inputs --------------------------- *)

\* A request body: not JSON, the JSON null, a JSON array, or a JSON object with
\* its userType and question members (None when absent).
Bodies ==
    { [kind |-> k, userType |-> None, question |-> None] : k \in {"malformed", "null", "array"} }
    \cup
    { [kind |-> "object", userType |-> u, question |-> q] :
        u \in {None, "", "admin"}, q \in {None, "", "why"} }

SecretValues == { "s3cr3t-a", "s3cr3t-b" }
SensitiveNames == { H_Authorization, H_cookie, H_COOKIE, H_XApiKey, H_ProxyAuth }

HeaderInputs ==
    { EmptyMap, H_XCustom :> "y" }
    \cup { (n :> v) @@ (H_XCustom :> "y") : n \in SensitiveNames, v \in SecretValues }

(* -------------------------------- state ------------------------------ *)

VARIABLES
    pricing,          \* PRICE_IN_PER_KTOK, PRICE_OUT_PER_KTOK, COST_SPLUNK_SCALE
    body,             \* body[r]: the request body of r
    headers,          \* headers[r]: the request headers of r
    upstream,         \* upstream[r]: what the inference collaborator answers to r
    pc,               \* pc[r]: the position of r in ask_question
    status_code,      \* the handler's local status_code
    status_writes,    \* how often status_code was assigned after its default
    user_type,        \* the handler's local user_type
    question,         \* the handler's local question
    answer,           \* the handler's local answer
    exc,              \* the exception in flight in r, or NoExc
    retval,           \* the value of a return statement waiting for finally and with exits
    response,         \* the (body, status) handed to the transport
    invocations,      \* number of calls of client.chat.completions.create made by r
    lf_stack,         \* Langfuse: the open spans of r's context, innermost last
    otel_stack,       \* OpenTelemetry: the open spans of r's context, innermost last
    span_log,         \* the span open and close events of r, in order
    otel_attrs,       \* otel_attrs[r][span]: attributes of r's OpenTelemetry spans
    lf_obs,           \* lf_obs[r][span]: input, output and metadata of r's Langfuse spans
    lf_trace,         \* lf_trace[r]: r's Langfuse trace
    request_counter,  \* http.server.request.count
    latency_hist,     \* http.server.request.duration: the observations r recorded
    token_counter,    \* llm.tokens: the totals by token type
    token_adds,       \* llm.tokens: the increments r made, in order
    log               \* the log records carrying r's request.id, in order

vars == << pricing, body, headers, upstream, pc, status_code, status_writes, user_type, question,
           answer, exc, retval, response, invocations, lf_stack, otel_stack, span_log,
           otel_attrs, lf_obs, lf_trace, request_counter, latency_hist, token_counter,
           token_adds, log >>

inputs == << pricing, body, headers, upstream >>
locals == << status_code, status_writes, user_type, question, answer, exc, retval, response, invocations >>
stacks == << lf_stack, otel_stack, span_log >>
traces == << otel_attrs, lf_obs, lf_trace >>
metrics == << request_counter, latency_hist, token_counter, token_adds >>

\* uuid.uuid4() of lines 180-181: identifiers unique to the request.
RequestId(r) == << "request", r >>
SessionId(r) == << "session", r >>

NoBody == [kind |-> "none", userType |-> None, question |-> None]
NoReturn == [body |-> [none |-> TRUE], status |-> 0]

\* A Langfuse span or trace on which nothing has been set.
NewObservation == [input |-> EmptyMap, output |-> EmptyMap, metadata |-> EmptyMap,
                   usage_details |-> EmptyMap, cost_details |-> EmptyMap]
NewTrace == [user_id |-> None, session_id |-> None, input |-> EmptyMap,
             output |-> EmptyMap, metadata |-> EmptyMap]

\* The state of a request context before the handler runs.
InitRequest(active) ==
    /\ pc = [r \in Reqs |-> IF r \in active THEN "start" ELSE "idle"]
    /\ status_code = [r \in Reqs |-> 0]
    /\ status_writes = [r \in Reqs |-> 0]
    /\ user_type = [r \in Reqs |-> None]
    /\ question = [r \in Reqs |-> None]
    /\ answer = [r \in Reqs |-> None]
    /\ exc = [r \in Reqs |-> NoExc]
    /\ retval = [r \in Reqs |-> NoReturn]
    /\ response = [r \in Reqs |-> NoReturn]
    /\ invocations = [r \in Reqs |-> 0]
    /\ lf_stack = [r \in Reqs |-> << >>]
    /\ otel_stack = [r \in Reqs |-> << >>]
    /\ span_log = [r \in Reqs |-> << >>]
    /\ otel_attrs = [r \in Reqs |-> [s \in {"root", "llm"} |-> EmptyMap]]
    /\ lf_obs = [r \in Reqs |-> [s \in {"root", "generation"} |-> NewObservation]]
    /\ lf_trace = [r \in Reqs |-> NewTrace]
    /\ request_counter = 0
    /\ latency_hist = [r \in Reqs |-> << >>]
    /\ token_counter = [prompt |-> 0, completion |-> 0]
    /\ token_adds = [r \in Reqs |-> << >>]
    /\ log = [r \in Reqs |-> << >>]

\* The reply matters only to a request that reaches the inference call.
ReachesInference(b) == b.kind = "object" /\ Truthy(b.question)

\* One request, with any body, reply and pricing, and headers drawn from hs.
InitWith(hs) ==
    /\ pricing \in PricingConfigs
    /\ \E b \in Bodies, h \in hs :
         \E rp \in (IF ReachesInference(b) THEN Replies ELSE {NoReply}) :
            /\ body = [r \in Reqs |-> IF r = 1 THEN b ELSE NoBody]
            /\ headers = [r \in Reqs |-> IF r = 1 THEN h ELSE EmptyMap]
            /\ upstream = [r \in Reqs |-> IF r = 1 THEN rp ELSE NoReply]
    /\ InitRequest({1})

Init == InitWith(HeaderInputs)

(* ------------------------------ helpers ------------------------------- *)

LogRecord(event, status) == [event |-> event, status |-> status]

OpenEvent(backend, span) == [op |-> "open", backend |-> backend, span |-> span]
CloseEvent(backend, span) == [op |-> "close", backend |-> backend, span |-> span]

\* Leaving a with block without ending its span.
LeaveOpen(stack) == stack

\* __exit__ of a span's with block: the innermost open span ends.
EndSpan(stack) == Front(stack)

\* lf.update_current_span(...) acts on the innermost open Langfuse span.
CurrentLf(r) == Last(lf_stack[r])

\* An aggregation that keeps the last amount written instead of the sum.
CounterAddLastWrite(total, n) == n

\* Counter.add(n) on a process-wide counter whose running total is total: the
\* SDK aggregation adds the amount in one indivisible step.
CounterAdd(total, n) == total + n

\* One process-wide current-span context, that of the first request.
SharedContext(r) == 1

\* The context in which trace.get_current_span() looks up the current span:
\* the context of the calling request's thread.
ContextOf(r) == r

\* The messages sent to the model and given as the generation's input.
Messages(r) ==
    << [role |-> "system", content |-> << "You are answering as user type: ", user_type[r] >>],
       [role |-> "user", content |-> << question[r] >>] >>

(* ------------------------- ask_question: entry ------------------------ *)

\* Lines 179-190: the locals, the request counter, the request_received log.
Receive(r) ==
    /\ pc[r] = "start"
    /\ status_code' = [status_code EXCEPT ![r] = 500]
    /\ status_writes' = [status_writes EXCEPT ![r] = 0]
    /\ request_counter' = CounterAdd(request_counter, 1)
    /\ log' = [log EXCEPT ![r] = Append(@, LogRecord("request_received", NoStatus))]
    /\ user_type' = [user_type EXCEPT ![r] = "anonymous"]
    /\ question' = [question EXCEPT ![r] = None]
    /\ answer' = [answer EXCEPT ![r] = None]
    /\ pc' = [pc EXCEPT ![r] = "open_lf_root"]
    /\ UNCHANGED << inputs, exc, retval, response, invocations, stacks, traces,
                    latency_hist, token_counter, token_adds >>

\* Line 193: with lf.start_as_current_span(name="ask_question_request").
OpenLfRoot(r) ==
    /\ pc[r] = "open_lf_root"
    /\ lf_stack' = [lf_stack EXCEPT ![r] = Append(@, "root")]
    /\ span_log' = [span_log EXCEPT ![r] = Append(@, OpenEvent("lf", "root"))]
    /\ pc' = [pc EXCEPT ![r] = "open_otel_root"]
    /\ UNCHANGED << inputs, locals, otel_stack, traces, metrics, log >>

\* An entry that goes on to parse the body without an OpenTelemetry root span.
OpenOtelRootDeferred(r) ==
    /\ pc[r] = "open_otel_root"
    /\ pc' = [pc EXCEPT ![r] = "parse"]
    /\ UNCHANGED << inputs, locals, stacks, traces, metrics, log >>

\* Lines 196-203: with tracer.start_as_current_span(...) as root_span.
OpenOtelRoot(r) ==
    /\ pc[r] = "open_otel_root"
    /\ otel_stack' = [otel_stack EXCEPT ![r] = Append(@, "root")]
    /\ span_log' = [span_log EXCEPT ![r] = Append(@, OpenEvent("otel", "root"))]
    /\ otel_attrs' = [otel_attrs EXCEPT ![r]["root"] =
            ("lf.request_id" :> RequestId(r)) @@ ("lf.session_id" :> SessionId(r))
            @@ ("http.route" :> "/askquestion")]
    /\ pc' = [pc EXCEPT ![r] = "parse"]
    /\ UNCHANGED << inputs, locals, lf_stack, lf_obs, lf_trace, metrics, log >>

\* The exception class raised by lines 205-207 for body b, or NoExc:
\* get_json(force=True) raises BadRequest on a body that is not JSON, and a
\* JSON array has no get method.
ParseRaises(b) ==
    CASE b.kind = "malformed" -> "BadRequest"
      [] b.kind = "array"     -> "AttributeError"
      [] OTHER                -> NoExc

\* data.get(key) on (request.get_json(force=True) or {}).
BodyGet(b, key) ==
    IF b.kind = "object" THEN (IF key = "userType" THEN b.userType ELSE b.question)
    ELSE None

\* Lines 205-240: parse the body, log request_parsed, describe the request on
\* the Langfuse span and trace and on the OpenTelemetry root span.
Parse(r) ==
    /\ pc[r] = "parse"
    /\ IF ParseRaises(body[r]) # NoExc
       THEN /\ exc' = [exc EXCEPT ![r] = ParseRaises(body[r])]
            /\ pc' = [pc EXCEPT ![r] = "except"]
            /\ UNCHANGED << user_type, question, log, traces >>
       ELSE LET ut == IF Truthy(BodyGet(body[r], "userType"))
                      THEN BodyGet(body[r], "userType") ELSE "anonymous"
                q == BodyGet(body[r], "question")
            IN  /\ user_type' = [user_type EXCEPT ![r] = ut]
                /\ question' = [question EXCEPT ![r] = q]
                /\ log' = [log EXCEPT ![r] = Append(@, LogRecord("request_parsed", NoStatus))]
                /\ lf_obs' = [lf_obs EXCEPT ![r][CurrentLf(r)] =
                      [@ EXCEPT
                         !.input = [request_id |-> RequestId(r),
                                    route |-> "/askquestion",
                                    client_ip |-> HeaderGet(headers[r], H_XForwardedFor, RemoteAddr),
                                    headers |-> ScrubHeaders(headers[r]),
                                    userType |-> ut,
                                    question |-> q],
                         !.metadata = Merge(@, ("env" :> "dev") @@ ("service" :> "flask-api")
                                               @@ ("component" :> "ask_question"))]]
                /\ lf_trace' = [lf_trace EXCEPT ![r] =
                      [@ EXCEPT !.user_id = ut, !.session_id = SessionId(r),
                                !.input = [question |-> q]]]
                /\ otel_attrs' = [otel_attrs EXCEPT ![r]["root"] =
                      Merge(@, ("lf.user_id" :> ut)
                               @@ ("request.headers" :> Str(ScrubHeaders(headers[r])))
                               @@ ("llm.input.userType" :> ut)
                               @@ (IF Truthy(q) THEN "llm.input.question" :> q ELSE EmptyMap))]
                /\ exc' = exc
                /\ pc' = [pc EXCEPT ![r] = "validate"]
    /\ UNCHANGED << inputs, status_code, status_writes, answer, retval, response, invocations,
                    stacks, metrics >>

\* A validation that rejects only an absent question.
MissingOnlyAbsent(q) == q = None

\* Line 242: not question.
Missing(q) == ~Truthy(q)

\* Lines 242-256: the question is missing; the return waits for finally.
BadRequest(r) ==
    /\ pc[r] = "validate"
    /\ Missing(question[r])
    /\ status_code' = [status_code EXCEPT ![r] = 400]
    /\ status_writes' = [status_writes EXCEPT ![r] = @ + 1]
    /\ latency_hist' = [latency_hist EXCEPT ![r] = Append(@, 400)]
    /\ log' = [log EXCEPT ![r] = Append(@, LogRecord("request_bad_request", 400))]
    /\ lf_obs' = [lf_obs EXCEPT ![r][CurrentLf(r)].metadata =
            Merge(@, ("status" :> "bad_request") @@ ("http_status" :> 400))]
    /\ lf_trace' = [lf_trace EXCEPT ![r].output = [error |-> "missing_question"]]
    /\ otel_attrs' = [otel_attrs EXCEPT ![r]["root"] =
            Merge(@, ("http.status_code" :> 400) @@ ("error" :> TRUE)
                     @@ ("error.type" :> "bad_request"))]
    /\ retval' = [retval EXCEPT ![r] =
            [body |-> [error |-> "Missing 'question' in body",
                       sessionId |-> SessionId(r), userId |-> user_type[r]],
             status |-> 400]]
    /\ pc' = [pc EXCEPT ![r] = "finally"]
    /\ UNCHANGED << inputs, user_type, question, answer, exc, response, invocations,
                    stacks, request_counter, token_counter, token_adds >>

(* ----------------------- ask_question: generation --------------------- *)

\* Lines 259-268: with tracer.start_as_current_span("openai.chat.completions.create")
\* as llm_span.
OpenLlmSpan(r) ==
    /\ pc[r] = "validate"
    /\ ~Missing(question[r])
    /\ otel_stack' = [otel_stack EXCEPT ![r] = Append(@, "llm")]
    /\ span_log' = [span_log EXCEPT ![r] = Append(@, OpenEvent("otel", "llm"))]
    /\ otel_attrs' = [otel_attrs EXCEPT ![r]["llm"] =
            ("llm.vendor" :> "openai") @@ ("llm.model" :> "gpt-4o-mini")
            @@ ("llm.input.role.system" :> Messages(r)[1].content)
            @@ ("lf.user_id" :> user_type[r]) @@ ("lf.session_id" :> SessionId(r))]
    /\ pc' = [pc EXCEPT ![r] = "open_generation"]
    /\ UNCHANGED << inputs, locals, lf_stack, lf_obs, lf_trace, metrics, log >>

\* Lines 271-279: with lf.start_as_current_observation(as_type="generation", ...)
\* as generation.
OpenGeneration(r) ==
    /\ pc[r] = "open_generation"
    /\ lf_stack' = [lf_stack EXCEPT ![r] = Append(@, "generation")]
    /\ span_log' = [span_log EXCEPT ![r] = Append(@, OpenEvent("lf", "generation"))]
    /\ lf_obs' = [lf_obs EXCEPT ![r]["generation"] =
            [@ EXCEPT !.input = [model |-> "gpt-4o-mini", messages |-> Messages(r)]]]
    /\ pc' = [pc EXCEPT ![r] = "call"]
    /\ UNCHANGED << inputs, locals, otel_stack, otel_attrs, lf_trace, metrics, log >>

\* The inference call placed before the two generation with blocks.
CallInferenceOutsideSpans(r) ==
    /\ pc[r] = "validate"
    /\ ~Missing(question[r])
    /\ invocations' = [invocations EXCEPT ![r] = @ + 1]
    /\ pc' = [pc EXCEPT ![r] = "awaiting"]
    /\ UNCHANGED << inputs, status_code, status_writes, user_type, question, answer, exc, retval,
                    response, stacks, traces, metrics, log >>

\* Lines 281-288: client.chat.completions.create(...) is called and blocks.
CallInference(r) ==
    /\ pc[r] = "call"
    /\ invocations' = [invocations EXCEPT ![r] = @ + 1]
    /\ pc' = [pc EXCEPT ![r] = "awaiting"]
    /\ UNCHANGED << inputs, status_code, status_writes, user_type, question, answer, exc, retval,
                    response, stacks, traces, metrics, log >>

\* A call that is made a second time when its first attempt raises.
InferenceReturnsRetrying(r) ==
    /\ pc[r] = "awaiting"
    /\ IF upstream[r].kind = "ok"
       THEN /\ pc' = [pc EXCEPT ![r] = "usage"]
            /\ exc' = exc
       ELSE IF invocations[r] < 2
       THEN /\ pc' = [pc EXCEPT ![r] = "call"]
            /\ exc' = exc
       ELSE /\ exc' = [exc EXCEPT ![r] = upstream[r].kind]
            /\ pc' = [pc EXCEPT ![r] = "close_generation"]
    /\ UNCHANGED << inputs, status_code, status_writes, user_type, question, answer, retval, response,
                    invocations, stacks, traces, metrics, log >>

\* The call returns a completion or raises.
InferenceReturns(r) ==
    /\ pc[r] = "awaiting"
    /\ IF upstream[r].kind = "ok"
       THEN /\ pc' = [pc EXCEPT ![r] = "usage"]
            /\ exc' = exc
       ELSE /\ exc' = [exc EXCEPT ![r] = upstream[r].kind]
            /\ pc' = [pc EXCEPT ![r] = "close_generation"]
    /\ UNCHANGED << inputs, status_code, status_writes, user_type, question, answer, retval, response,
                    invocations, stacks, traces, metrics, log >>

\* answer[:500]; the answers of the model are shorter than 500 characters.
Excerpt(a) == a

\* Lines 313-359: the attributes that carry the usage u and its cost.
UsageAttrs(u, cost) ==
    ("llm.usage.prompt_tokens" :> u.prompt_tokens)
    @@ ("llm.usage.completion_tokens" :> u.completion_tokens)
    @@ ("llm.usage.total_tokens" :> u.total_tokens)
    @@ ("llm.cost.input_usd" :> cost.input)
    @@ ("llm.cost.output_usd" :> cost.output)
    @@ ("llm.cost.usd" :> cost.total)

\* Lines 289-359: read the answer and the usage, count the tokens, compute the
\* cost and write all of it to the spans and the trace.  Reading the usage can
\* raise; the exception then leaves both generation with blocks.
RecordUsage(r) ==
    LET u == ReadUsage(upstream[r])
        adds == TokenAdds(u)
        cost == compute_llm_cost_usd(u.prompt_tokens, u.completion_tokens, pricing)
        scaled == [input |-> ScaleCost(cost.input, pricing),
                   output |-> ScaleCost(cost.output, pricing),
                   total |-> ScaleCost(cost.total, pricing)]
        ans == upstream[r].answer
    IN
    /\ pc[r] = "usage"
    /\ answer' = [answer EXCEPT ![r] = ans]
    /\ token_adds' = [token_adds EXCEPT ![r] = @ \o adds]
    /\ token_counter' =
          [t \in {"prompt", "completion"} |->
              IF \E i \in DOMAIN adds : adds[i].type = t
              THEN CounterAdd(token_counter[t],
                              adds[CHOOSE i \in DOMAIN adds : adds[i].type = t].n)
              ELSE token_counter[t]]
    /\ IF u.raised
       THEN /\ exc' = [exc EXCEPT ![r] = "AttributeError"]
            /\ UNCHANGED << log, traces >>
       ELSE /\ exc' = exc
            /\ log' = [log EXCEPT ![r] = Append(@, LogRecord("llm_usage", NoStatus))]
            /\ otel_attrs' = [otel_attrs EXCEPT
                  ![r]["llm"] =
                      Merge(@, UsageAttrs(u, scaled)
                               @@ (IF Truthy(ans)
                                   THEN ("llm.output.length" :> Len(ans))
                                        @@ ("llm.output.excerpt" :> Excerpt(ans))
                                   ELSE EmptyMap)),
                  ![r]["root"] = Merge(@, UsageAttrs(u, scaled))]
            /\ lf_obs' = [lf_obs EXCEPT ![r] =
                  LET gen == [@ EXCEPT !["generation"] =
                                 [@ EXCEPT
                                     !.output = [value |-> ans],
                                     !.usage_details =
                                         [prompt_tokens |-> u.prompt_tokens,
                                          completion_tokens |-> u.completion_tokens,
                                          total_tokens |-> u.total_tokens],
                                     !.cost_details = cost]]
                  IN  [gen EXCEPT ![CurrentLf(r)].metadata =
                          Merge(@, ("llm.cost.source" :> "app_env_prices")
                                   @@ ("llm.model" :> "gpt-4o-mini")
                                   @@ UsageAttrs(u, cost))]]
            /\ lf_trace' = [lf_trace EXCEPT ![r].metadata =
                  Merge(@, ("llm.cost.source" :> "app_env_prices")
                           @@ ("llm.model" :> "gpt-4o-mini")
                           @@ ("llm.cost.usd" :> cost.total))]
    /\ pc' = [pc EXCEPT ![r] = "close_generation"]
    /\ UNCHANGED << inputs, status_code, status_writes, user_type, question, retval, response,
                    invocations, stacks, request_counter, latency_hist >>

\* Line 271: the generation's with block is left, normally or by an exception.
CloseGeneration(r) ==
    /\ pc[r] = "close_generation"
    /\ lf_stack' = [lf_stack EXCEPT ![r] = EndSpan(@)]
    /\ span_log' = [span_log EXCEPT ![r] = Append(@, CloseEvent("lf", Last(lf_stack[r])))]
    /\ pc' = [pc EXCEPT ![r] = "close_llm"]
    /\ UNCHANGED << inputs, locals, otel_stack, traces, metrics, log >>

\* Line 259: the LLM span's with block is left, normally or by an exception.
CloseLlmSpan(r) ==
    /\ pc[r] = "close_llm"
    /\ otel_stack' = [otel_stack EXCEPT ![r] = EndSpan(@)]
    /\ span_log' = [span_log EXCEPT ![r] = Append(@, CloseEvent("otel", Last(otel_stack[r])))]
    /\ pc' = [pc EXCEPT ![r] = IF exc[r] = NoExc THEN "success" ELSE "except"]
    /\ UNCHANGED << inputs, locals, lf_stack, traces, metrics, log >>

(* ------------------------ ask_question: outcome ----------------------- *)

\* Lines 361-374: the success path; the return waits for finally.
FinishSuccess(r) ==
    /\ pc[r] = "success"
    /\ status_code' = [status_code EXCEPT ![r] = 200]
    /\ status_writes' = [status_writes EXCEPT ![r] = @ + 1]
    /\ lf_obs' = [lf_obs EXCEPT ![r][CurrentLf(r)] =
            [@ EXCEPT !.output = [answer |-> answer[r]],
                      !.metadata = Merge(@, ("status" :> "ok") @@ ("http_status" :> 200))]]
    /\ lf_trace' = [lf_trace EXCEPT ![r].output = [answer |-> answer[r]]]
    /\ otel_attrs' = [otel_attrs EXCEPT ![r]["root"] =
            Merge(@, ("http.status_code" :> 200)
                     @@ (IF Truthy(answer[r])
                         THEN "llm.output.excerpt" :> Excerpt(answer[r]) ELSE EmptyMap))]
    /\ latency_hist' = [latency_hist EXCEPT ![r] = Append(@, 200)]
    /\ log' = [log EXCEPT ![r] = Append(@, LogRecord("request_success", 200))]
    /\ retval' = [retval EXCEPT ![r] =
            [body |-> [answer |-> answer[r], sessionId |-> SessionId(r),
                       userId |-> user_type[r]],
             status |-> 200]]
    /\ pc' = [pc EXCEPT ![r] = "finally"]
    /\ UNCHANGED << inputs, user_type, question, answer, exc, response, invocations,
                    stacks, request_counter, token_counter, token_adds >>

\* Lines 377-411: the except clause that matches the exception handles it; an
\* exception that no clause matches stays in flight.
Except(r) ==
    /\ pc[r] = "except"
    /\ IF Handler(exc[r]) = NoExc
       THEN UNCHANGED << status_code, status_writes, exc, log, lf_obs, lf_trace >>
       ELSE LET eff == ClauseEffect(Handler(exc[r]), exc[r])
            IN  /\ status_code' = [status_code EXCEPT ![r] = eff.status]
                /\ status_writes' = [status_writes EXCEPT ![r] = @ + 1]
                /\ log' = [log EXCEPT ![r] = Append(@, LogRecord(eff.event, NoStatus))]
                /\ lf_obs' = [lf_obs EXCEPT ![r][CurrentLf(r)] =
                      [@ EXCEPT !.output = eff.output,
                                !.metadata = Merge(@, ("status" :> eff.lf_status)
                                                      @@ ("http_status" :> eff.status))]]
                /\ lf_trace' = [lf_trace EXCEPT ![r].metadata =
                      Merge(@, ("error" :> TRUE) @@ ("error.type" :> eff.error_type))]
                /\ exc' = [exc EXCEPT ![r] = NoExc]
    /\ pc' = [pc EXCEPT ![r] = "finally"]
    /\ UNCHANGED << inputs, user_type, question, answer, retval, response, invocations,
                    stacks, otel_attrs, metrics >>

\* A finally block that reports no request as an error.
ReportsErrorNever(sc) == FALSE

\* A finally block that reports every request as an error.
ReportsErrorAlways(sc) == TRUE

\* Line 414: status_code != 200.
ReportsError(sc) == sc # 200

\* Lines 413-425: finally.  trace.get_current_span() is the innermost open
\* OpenTelemetry span of the request's context.
Finally(r) ==
    /\ pc[r] = "finally"
    /\ IF ReportsError(status_code[r])
       THEN /\ latency_hist' = [latency_hist EXCEPT ![r] = Append(@, status_code[r])]
            /\ log' = [log EXCEPT ![r] = Append(@, LogRecord("request_error", status_code[r]))]
            /\ IF otel_stack[ContextOf(r)] # << >>
               THEN otel_attrs' = [otel_attrs EXCEPT
                        ![ContextOf(r)][Last(otel_stack[ContextOf(r)])] =
                        Merge(@, ("error" :> TRUE) @@ ("error.status_code" :> status_code[r]))]
               ELSE otel_attrs' = otel_attrs
       ELSE UNCHANGED << latency_hist, log, otel_attrs >>
    /\ pc' = [pc EXCEPT ![r] = "close_otel_root"]
    /\ UNCHANGED << inputs, locals, stacks, lf_obs, lf_trace, request_counter,
                    token_counter, token_adds >>

\* Line 196: the OpenTelemetry root span's with block is left.
CloseOtelRoot(r) ==
    /\ pc[r] = "close_otel_root"
    /\ otel_stack' = [otel_stack EXCEPT ![r] = EndSpan(@)]
    /\ span_log' = [span_log EXCEPT ![r] = Append(@, CloseEvent("otel", Last(otel_stack[r])))]
    /\ pc' = [pc EXCEPT ![r] = "close_lf_root"]
    /\ UNCHANGED << inputs, locals, lf_stack, traces, metrics, log >>

\* Line 193: the Langfuse root span's with block is left.
CloseLfRoot(r) ==
    /\ pc[r] = "close_lf_root"
    /\ lf_stack' = [lf_stack EXCEPT ![r] = EndSpan(@)]
    /\ span_log' = [span_log EXCEPT ![r] = Append(@, CloseEvent("lf", Last(lf_stack[r])))]
    /\ pc' = [pc EXCEPT ![r] = "return"]
    /\ UNCHANGED << inputs, locals, otel_stack, traces, metrics, log >>

\* The handler ends: the pending return of line 256 or 374, else the return of
\* line 428; an exception still in flight propagates to the transport instead.
Return(r) ==
    /\ pc[r] = "return"
    /\ IF exc[r] # NoExc
       THEN /\ pc' = [pc EXCEPT ![r] = "escaped"]
            /\ response' = response
       ELSE /\ pc' = [pc EXCEPT ![r] = "responded"]
            /\ response' = [response EXCEPT ![r] =
                  IF retval[r] # NoReturn THEN retval[r]
                  ELSE [body |-> [error |-> "request_failed"], status |-> status_code[r]]]
    /\ UNCHANGED << inputs, status_code, status_writes, user_type, question, answer, exc, retval,
                    invocations, stacks, traces, metrics, log >>

(* --------------------------- specifications --------------------------- *)

Step(r) ==
    \/ Receive(r)
    \/ OpenLfRoot(r)
    \/ OpenOtelRoot(r)
    \/ Parse(r)
    \/ BadRequest(r)
    \/ OpenLlmSpan(r)
    \/ OpenGeneration(r)
    \/ CallInference(r)
    \/ InferenceReturns(r)
    \/ RecordUsage(r)
    \/ CloseGeneration(r)
    \/ CloseLlmSpan(r)
    \/ FinishSuccess(r)
    \/ Except(r)
    \/ Finally(r)
    \/ CloseOtelRoot(r)
    \/ CloseLfRoot(r)
    \/ Return(r)

Next == \E r \in Reqs : Step(r)

Spec == Init /\ [][Next]_vars

\* The handler runs to its end: every step but the inference call is local
\* computation, and the inference call returns or raises.  The headers do not
\* influence the path taken, so two header sets stand for all.
InitFair == InitWith({ EmptyMap, (H_Authorization :> "s3cr3t-a") @@ (H_XCustom :> "y") })

FairSpec == InitFair /\ [][Next]_vars /\ \A r \in Reqs : WF_vars(Step(r))

\* Two requests that differ only in the values of their sensitive headers and
\* get the same reply, run side by side: request 2 takes each step right after
\* request 1 has taken it.
InitPair ==
    /\ pricing \in PricingConfigs
    /\ \E b \in Bodies, n \in SensitiveNames, v \in SecretValues :
         \E rp \in (IF ReachesInference(b) THEN Replies ELSE {NoReply}) :
            /\ body = [r \in Reqs |-> IF r \in {1, 2} THEN b ELSE NoBody]
            /\ headers = [r \in Reqs |->
                  CASE r = 1 -> (n :> "s3cr3t-a") @@ (H_XCustom :> "y")
                    [] r = 2 -> (n :> v) @@ (H_XCustom :> "y")
                    [] OTHER -> EmptyMap]
            /\ upstream = [r \in Reqs |-> IF r \in {1, 2} THEN rp ELSE NoReply]
    /\ InitRequest({1, 2})

NextPair ==
    \/ pc[1] = pc[2] /\ Step(1)
    \/ pc[1] # pc[2] /\ Step(2)

SpecPair == InitPair /\ [][NextPair]_vars

\* The requests that run concurrently: a missing question, a completion with
\* usage, a rate-limited call, and a completion whose usage cannot be read.
ConcInputs ==
    { [body |-> [kind |-> "object", userType |-> None, question |-> None],
       reply |-> NoReply],
      [body |-> [kind |-> "object", userType |-> "admin", question |-> "why"],
       reply |-> [kind |-> "ok", answer |-> "42", usage_kind |-> "dict",
                  prompt_tokens |-> 1, completion_tokens |-> MaxTok, total_tokens |-> 0]],
      [body |-> [kind |-> "object", userType |-> None, question |-> "why"],
       reply |-> [kind |-> "RateLimitError", answer |-> None, usage_kind |-> "none",
                  prompt_tokens |-> 0, completion_tokens |-> 0, total_tokens |-> 0]],
      [body |-> [kind |-> "object", userType |-> "admin", question |-> "why"],
       reply |-> [kind |-> "ok", answer |-> "42", usage_kind |-> "object",
                  prompt_tokens |-> 1, completion_tokens |-> 0, total_tokens |-> 1]] }

\* Every request context runs the handler, in any interleaving of their steps.
InitConc ==
    /\ pricing = [price_in |-> 1000000, price_out |-> 2000000, scale |-> 200]
    /\ \E in \in [Reqs -> ConcInputs] :
          /\ body = [r \in Reqs |-> in[r].body]
          /\ upstream = [r \in Reqs |-> in[r].reply]
    /\ headers = [r \in Reqs |-> (H_Authorization :> "s3cr3t-a") @@ (H_XCustom :> "y")]
    /\ InitRequest(Reqs)

SpecConc == InitConc /\ [][Next]_vars

\* The requests on which the cost arithmetic is exercised: every pair of token
\* counts, reported in a mapping or in an object, next to a request that is
\* rejected and one whose call fails.
CostInputs ==
    { [body |-> [kind |-> "object", userType |-> None, question |-> "why"], reply |-> rp] :
        rp \in { x \in OkReplies : x.answer = "42" /\ x.usage_kind # "none"
                                   /\ x.total_tokens = x.prompt_tokens + x.completion_tokens }
               \cup { ExampleReply }
               \cup { x \in FailReplies : x.kind = "RateLimitError" } }
    \cup { [body |-> [kind |-> "object", userType |-> None, question |-> None],
            reply |-> NoReply] }

InitCost ==
    /\ pricing \in CostConfigs
    /\ \E in \in CostInputs :
          /\ body = [r \in Reqs |-> IF r = 1 THEN in.body ELSE NoBody]
          /\ upstream = [r \in Reqs |-> IF r = 1 THEN in.reply ELSE NoReply]
    /\ headers = [r \in Reqs |-> EmptyMap]
    /\ InitRequest({1})

SpecCost == InitCost /\ [][Next]_vars

(* ------------------------------- claims ------------------------------- *)

Responded(r) == pc[r] = "responded"

\* Number of records of log sequence s whose event is e.
Occurrences(s, e) == Cardinality({ i \in DOMAIN s : s[i].event = e })

\* Number of events of span log s that are op on span sp of backend b.
SpanEvents(s, op, b, sp) ==
    { i \in DOMAIN s : s[i].op = op /\ s[i].backend = b /\ s[i].span = sp }

\* C1: every request that has responded has recorded exactly one observation
\* on the latency histogram http.server.request.duration, on every outcome path.
C1_ExactlyOneLatencyObservation ==
    \A r \in Reqs : Responded(r) => Len(latency_hist[r]) = 1

\* C2: every request that has responded has emitted exactly one terminal log
\* event: request_success when the final status is 200, request_error otherwise.
C2_ExactlyOneTerminalLogEvent ==
    \A r \in Reqs : Responded(r) =>
        LET ok  == Occurrences(log[r], "request_success")
            err == Occurrences(log[r], "request_error")
        IN  /\ ok + err = 1
            /\ (response[r].status = 200) <=> (ok = 1)

C2_Witness ==
    /\ Responded(1)
    /\ response[1].status = 400
    /\ Occurrences(log[1], "request_bad_request") = 1
    /\ Occurrences(log[1], "request_error") = 1

\* The status the claim assigns to each failure variant of the inference call.
ClaimedStatus(kind) ==
    CASE kind = "RateLimitError"      -> 429
      [] kind = "AuthenticationError" -> 401
      [] kind = "APIError"            -> 502
      [] kind = "APIConnectionError"  -> 502
      [] OTHER                        -> 500

\* C3: when the inference call fails, the response is the status of the failure
\* variant (rate limit 429, authentication 401, any other API failure 502, any
\* other failure 500) with the body {"error": "request_failed"}.
C3_FailureStatusByVariant ==
    \A r \in Reqs :
        (Responded(r) /\ invocations[r] > 0 /\ upstream[r].kind \in FailureClasses) =>
            response[r] = [body |-> [error |-> "request_failed"],
                           status |-> ClaimedStatus(upstream[r].kind)]

C3_Witness ==
    /\ Responded(1)
    /\ upstream[1].kind = "RateLimitError"
    /\ invocations[1] = 1
    /\ response[1].status = 429

\* The request body of r is JSON that carries no question or an empty one.
QuestionMissing(r) == body[r].kind \in {"null", "object"} /\ ~Truthy(body[r].question)

\* C4: a request whose body has no question or an empty one never opens a
\* generation span on either backend, never invokes the inference collaborator,
\* never increments llm.tokens, and is answered 400 with the descriptive body.
C4_MissingQuestion ==
    \A r \in Reqs : QuestionMissing(r) =>
        /\ \A i \in DOMAIN span_log[r] : span_log[r][i].span \notin {"llm", "generation"}
        /\ pc[r] # "awaiting"
        /\ invocations[r] = 0
        /\ token_adds[r] = << >>
        /\ Responded(r) =>
              /\ response[r].status = 400
              /\ DOMAIN response[r].body = {"error", "sessionId", "userId"}
              /\ response[r].body.error = "Missing 'question' in body"

C4_Witness ==
    /\ Responded(1)
    /\ body[1].kind = "object"
    /\ body[1].question = ""
    /\ response[1].status = 400

\* The error tag of each failure branch, by the status of the branch.
ErrorTag(status) ==
    CASE status = 400 -> "bad_request"
      [] status = 429 -> "rate_limit"
      [] status = 401 -> "auth_error"
      [] status = 502 -> "openai_api_error"
      [] OTHER        -> "server_error"

HasValue(m, k, v) == k \in DOMAIN m /\ m[k] = v

\* C5: on every failure branch, when the response is produced both root spans
\* (OpenTelemetry and Langfuse) carry an error flag that is true and the error
\* tag of the branch.
C5_ErrorFlagAndTagOnBothBackends ==
    \A r \in Reqs : (Responded(r) /\ response[r].status # 200) =>
        LET tag == ErrorTag(response[r].status)
        IN  /\ HasValue(otel_attrs[r]["root"], "error", TRUE)
            /\ HasValue(otel_attrs[r]["root"], "error.type", tag)
            /\ \/ HasValue(lf_obs[r]["root"].metadata, "error", TRUE)
               \/ HasValue(lf_trace[r].metadata, "error", TRUE)
            /\ \/ HasValue(lf_obs[r]["root"].output, "error", tag)
               \/ HasValue(lf_obs[r]["root"].metadata, "status", tag)

\* C6: every request reaches RESPONDED with a (body, status) response; no
\* exception propagates out of the handler.
C6_NoFailureEscapes ==
    \A r \in Reqs : (pc[r] = "start") ~> (Responded(r) /\ response[r] # NoReturn)

C6_Witness ==
    /\ Responded(1)
    /\ body[1].kind = "malformed"
    /\ response[1] = [body |-> [error |-> "request_failed"], status |-> 500]

\* C7: when the handler ends, every span that was opened has been closed, on
\* both backends, and both generation spans were closed before both root spans.
C7_SpansClosedOnEveryExit ==
    \A r \in Reqs : pc[r] \in {"responded", "escaped"} =>
        /\ lf_stack[r] = << >>
        /\ otel_stack[r] = << >>
        /\ \A b \in {"lf", "otel"}, sp \in {"root", "llm", "generation"} :
              Cardinality(SpanEvents(span_log[r], "open", b, sp))
                 = Cardinality(SpanEvents(span_log[r], "close", b, sp))
        /\ \A i, j \in DOMAIN span_log[r] :
              (/\ span_log[r][i].op = "close" /\ span_log[r][i].span = "root"
               /\ span_log[r][j].op = "close" /\ span_log[r][j].span \in {"llm", "generation"})
              => j < i

C7_Witness ==
    /\ Responded(1)
    /\ upstream[1].kind = "RateLimitError"
    /\ Len(span_log[1]) = 8
    /\ lf_stack[1] = << >>
    /\ otel_stack[1] = << >>

\* Number of times span sp is in the stack of open spans.
OpenCount(stack, sp) == Cardinality({ i \in DOMAIN stack : stack[i] = sp })

\* C8: at every point each backend has at most one open root span and at most
\* one open generation span per request, a generation span is open only while
\* the root span of its backend is open, and the inference collaborator is being
\* invoked only while both generation spans are open.
C8_SpanNesting ==
    \A r \in Reqs :
        /\ OpenCount(lf_stack[r], "root") <= 1
        /\ OpenCount(lf_stack[r], "generation") <= 1
        /\ OpenCount(otel_stack[r], "root") <= 1
        /\ OpenCount(otel_stack[r], "llm") <= 1
        /\ OpenCount(lf_stack[r], "generation") = 1 => OpenCount(lf_stack[r], "root") = 1
        /\ OpenCount(otel_stack[r], "llm") = 1 => OpenCount(otel_stack[r], "root") = 1
        /\ pc[r] = "awaiting" =>
              /\ OpenCount(lf_stack[r], "generation") = 1
              /\ OpenCount(otel_stack[r], "llm") = 1

C8_Witness ==
    /\ pc[1] = "awaiting"
    /\ lf_stack[1] = << "root", "generation" >>
    /\ otel_stack[1] = << "root", "llm" >>

\* The attribute and metadata keys that carry token counts, costs or the answer.
UsageKeys ==
    { "llm.usage.prompt_tokens", "llm.usage.completion_tokens", "llm.usage.total_tokens",
      "llm.cost.input_usd", "llm.cost.output_usd", "llm.cost.usd",
      "llm.output.length", "llm.output.excerpt", "answer", "value" }

\* C9: a request whose final status is not 200 has written no token count, cost
\* figure or answer to any span, to the trace, to llm.tokens or to its response.
C9_NothingOnFailure ==
    \A r \in Reqs : (Responded(r) /\ response[r].status # 200) =>
        /\ token_adds[r] = << >>
        /\ \A sp \in {"root", "llm"} : DOMAIN otel_attrs[r][sp] \cap UsageKeys = {}
        /\ \A sp \in {"root", "generation"} :
              /\ DOMAIN lf_obs[r][sp].metadata \cap UsageKeys = {}
              /\ DOMAIN lf_obs[r][sp].output \cap UsageKeys = {}
              /\ lf_obs[r][sp].usage_details = EmptyMap
              /\ lf_obs[r][sp].cost_details = EmptyMap
        /\ DOMAIN lf_trace[r].metadata \cap UsageKeys = {}
        /\ DOMAIN lf_trace[r].output \cap UsageKeys = {}
        /\ DOMAIN response[r].body \cap UsageKeys = {}

C9_Witness ==
    /\ Responded(1)
    /\ response[1].status = 500
    /\ upstream[1].kind = "ok"
    /\ upstream[1].answer = "42"
    /\ upstream[1].prompt_tokens > 0
    /\ invocations[1] = 1

\* The keys whose values are the request's own identifiers.
IdKeys == { "lf.request_id", "lf.session_id", "request_id" }

WithoutIds(m) == [k \in DOMAIN m \ IdKeys |-> m[k]]

\* Everything request r has emitted to the telemetry sinks, its identifiers
\* left out.
Telemetry(r) ==
    [otel_root |-> WithoutIds(otel_attrs[r]["root"]),
     otel_llm  |-> WithoutIds(otel_attrs[r]["llm"]),
     lf_root   |-> [lf_obs[r]["root"] EXCEPT !.input = WithoutIds(@)],
     lf_gen    |-> lf_obs[r]["generation"],
     lf_trace  |-> [lf_trace[r] EXCEPT !.session_id = None],
     hist      |-> latency_hist[r],
     tokens    |-> token_adds[r],
     log       |-> log[r]]

\* C10: two requests that differ only in the values of sensitive headers emit
\* the same telemetry at the same position of the handler, and the recorded
\* value of a sensitive header is the marker [REDACTED].
C10_SensitiveHeadersRedacted ==
    /\ pc[1] = pc[2] => Telemetry(1) = Telemetry(2)
    /\ \A r \in {1, 2} : \A k \in DOMAIN headers[r] \cap SensitiveNames :
          /\ "headers" \in DOMAIN lf_obs[r]["root"].input =>
                lf_obs[r]["root"].input.headers[k] = REDACTED
          /\ "request.headers" \in DOMAIN otel_attrs[r]["root"] =>
                otel_attrs[r]["root"]["request.headers"][2][k] = REDACTED

C10_Witness ==
    /\ Responded(1)
    /\ Responded(2)
    /\ response[1].status = 200
    /\ H_Authorization \in DOMAIN headers[1]
    /\ headers[1][H_Authorization] # headers[2][H_Authorization]
    /\ lf_obs[2]["root"].input.headers[H_Authorization] = REDACTED

\* The status of the outcome a request has when it runs alone, from its inputs.
TrueStatus(r) ==
    IF body[r].kind \in {"malformed", "array"} THEN 500
    ELSE IF ~Truthy(body[r].question) THEN 400
    ELSE IF upstream[r].kind # "ok" THEN ClaimedStatus(upstream[r].kind)
    ELSE IF /\ upstream[r].usage_kind = "object"
            /\ \/ upstream[r].prompt_tokens = 0
               \/ upstream[r].completion_tokens = 0
               \/ upstream[r].total_tokens = 0
         THEN 500
    ELSE 200

\* What a request that has responded has recorded is its own: its status is
\* that of its own outcome and its spans carry its own identifiers and caller.
OwnResults(r) ==
    /\ response[r].status = TrueStatus(r)
    /\ status_code[r] = TrueStatus(r)
    /\ otel_attrs[r]["root"]["lf.request_id"] = RequestId(r)
    /\ otel_attrs[r]["root"]["lf.session_id"] = SessionId(r)
    /\ ("error" \in DOMAIN otel_attrs[r]["root"]) <=> (TrueStatus(r) # 200)
    /\ "error.status_code" \in DOMAIN otel_attrs[r]["root"] =>
          otel_attrs[r]["root"]["error.status_code"] = TrueStatus(r)
    /\ ParseRaises(body[r]) = NoExc =>
          /\ lf_trace[r].session_id = SessionId(r)
          /\ lf_trace[r].input = [question |-> BodyGet(body[r], "question")]
          /\ lf_obs[r]["root"].input.request_id = RequestId(r)
          /\ lf_obs[r]["root"].input.question = BodyGet(body[r], "question")
          /\ otel_attrs[r]["root"]["lf.user_id"] = user_type[r]

\* A step of one request leaves everything the other requests own as it was.
NoCrossWrites ==
    \A r \in Reqs : pc'[r] = pc[r] =>
        /\ status_code'[r] = status_code[r]
        /\ user_type'[r] = user_type[r]
        /\ question'[r] = question[r]
        /\ answer'[r] = answer[r]
        /\ response'[r] = response[r]
        /\ lf_stack'[r] = lf_stack[r]
        /\ otel_stack'[r] = otel_stack[r]
        /\ otel_attrs'[r] = otel_attrs[r]
        /\ lf_obs'[r] = lf_obs[r]
        /\ lf_trace'[r] = lf_trace[r]
        /\ latency_hist'[r] = latency_hist[r]
        /\ log'[r] = log[r]

\* C11: under any interleaving of the requests, a step of one request changes
\* no status code, identifier, span or trace of another, and what a request has
\* recorded when it responds is what its own inputs give when it runs alone.
C11_RequestsIsolated ==
    /\ [](\A r \in Reqs : Responded(r) => OwnResults(r))
    /\ [][NoCrossWrites]_vars

C11_Witness ==
    /\ pc[1] = "awaiting"
    /\ pc[2] = "close_otel_root"
    /\ status_code[2] = 429
    /\ HasValue(otel_attrs[2]["root"], "error", TRUE)
    /\ "error" \notin DOMAIN otel_attrs[1]["root"]

\* The mapping _scrub_headers returned for the request, as the Langfuse root
\* span input holds it once the body is parsed.
Scrubbed(r) == lf_obs[r]["root"].input.headers

HeadersRecorded(r) ==
    /\ pc[r] \notin {"idle", "start", "open_lf_root", "open_otel_root", "parse"}
    /\ ParseRaises(body[r]) = NoExc

\* C12: the mapping _scrub_headers returns has exactly the keys of its input,
\* the value of every key that is a letter-case variant of authorization,
\* cookie, x-api-key or proxy-authorization is "[REDACTED]" and every other
\* value is the input's; an empty input gives an empty mapping; the input
\* mapping is never modified.
C12_ScrubHeadersContract ==
    /\ [](\A r \in Reqs : HeadersRecorded(r) =>
            /\ DOMAIN Scrubbed(r) = DOMAIN headers[r]
            /\ \A k \in DOMAIN headers[r] :
                   Scrubbed(r)[k] = IF k \in SensitiveNames THEN REDACTED ELSE headers[r][k]
            /\ headers[r] = EmptyMap => Scrubbed(r) = EmptyMap
            /\ otel_attrs[r]["root"]["request.headers"] = Str(Scrubbed(r)))
    /\ [][headers' = headers]_vars

C12_Witness ==
    /\ HeadersRecorded(1)
    /\ headers[1] = (H_COOKIE :> "s3cr3t-b") @@ (H_XCustom :> "y")
    /\ Scrubbed(1) = (H_COOKIE :> REDACTED) @@ (H_XCustom :> "y")

\* x is n / d rounded to a nearest integer.
IsRounded(x, n, d) == 2 * (n - d * x) <= d /\ 2 * (d * x - n) <= d

\* The request read its usage and recorded a cost.
CostRecorded(r) == DOMAIN lf_obs[r]["generation"].cost_details # {}

CostOf(r) == lf_obs[r]["generation"].cost_details
UsageOf(r) == lf_obs[r]["generation"].usage_details

\* C13: for all token counts and rates, input_cost and output_cost are the
\* products tokens / 1000 * rate, each rounded to 6 decimals on its own, and
\* total_cost is the sum of these two rounded amounts at 6 decimals; zero
\* prompt and completion tokens cost (0, 0, 0) under every configuration.
C13_CostTotalIsSumOfRoundedParts ==
    \A r \in Reqs : CostRecorded(r) =>
        /\ IsRounded(CostOf(r).input, UsageOf(r).prompt_tokens * pricing.price_in, 1000)
        /\ IsRounded(CostOf(r).output, UsageOf(r).completion_tokens * pricing.price_out, 1000)
        /\ CostOf(r).total = CostOf(r).input + CostOf(r).output
        /\ (UsageOf(r).prompt_tokens = 0 /\ UsageOf(r).completion_tokens = 0) =>
              CostOf(r) = [input |-> 0, output |-> 0, total |-> 0]

C13_Witness ==
    /\ CostRecorded(1)
    /\ pricing.price_in = 1400
    /\ UsageOf(1).prompt_tokens = 1
    /\ UsageOf(1).completion_tokens = 1
    /\ CostOf(1) = [input |-> 1, output |-> 1, total |-> 2]

\* The scaled breakdown, as the OpenTelemetry generation span carries it.
ScaledOf(r) ==
    [input  |-> otel_attrs[r]["llm"]["llm.cost.input_usd"],
     output |-> otel_attrs[r]["llm"]["llm.cost.output_usd"],
     total  |-> otel_attrs[r]["llm"]["llm.cost.usd"]]

\* C14: each of the scaled input, output and total cost is the unscaled amount
\* times the scale factor, rounded to 6 decimals on its own; 100 prompt and 50
\* completion tokens at 1 and 2 per 1000 tokens cost (0.1, 0.1, 0.2), and 0.4
\* in total at scale 2.0; at scale 1.0 the scaled breakdown is the unscaled one.
C14_ScaledCost ==
    \A r \in Reqs : CostRecorded(r) =>
        /\ \A f \in {"input", "output", "total"} :
              IsRounded(ScaledOf(r)[f], CostOf(r)[f] * pricing.scale, 100)
        /\ ( /\ UsageOf(r).prompt_tokens = 100
             /\ UsageOf(r).completion_tokens = 50
             /\ pricing.price_in = 1000000
             /\ pricing.price_out = 2000000 ) =>
               /\ CostOf(r) = [input |-> 100000, output |-> 100000, total |-> 200000]
               /\ pricing.scale = 200 => ScaledOf(r).total = 400000
        /\ pricing.scale = 100 => ScaledOf(r) = CostOf(r)

C14_Witness ==
    /\ CostRecorded(1)
    /\ UsageOf(1).prompt_tokens = 100
    /\ UsageOf(1).completion_tokens = 50
    /\ pricing = [price_in |-> 1000000, price_out |-> 2000000, scale |-> 200]
    /\ ScaledOf(1) = [input |-> 200000, output |-> 200000, total |-> 400000]

\* The request has entered the handler.
Entered(r) == pc[r] \notin {"idle", "start"}

\* The request is past the point where a completion's usage is counted.
PastUsage(r) ==
    pc[r] \in {"close_generation", "close_llm", "success", "except", "finally",
               "close_otel_root", "close_lf_root", "return", "responded", "escaped"}

\* The tokens of type t that the reply to request r reports.
ReportedTokens(r, t) ==
    IF t = "prompt" THEN upstream[r].prompt_tokens ELSE upstream[r].completion_tokens

RECURSIVE SumTokens(_, _)
SumTokens(rs, t) ==
    IF rs = {} THEN 0
    ELSE LET r == CHOOSE x \in rs : TRUE
         IN  ReportedTokens(r, t) + SumTokens(rs \ {r}, t)

NoTelemetryYet(r) ==
    /\ log[r] = << >>
    /\ latency_hist[r] = << >>
    /\ token_adds[r] = << >>
    /\ lf_stack[r] = << >> /\ otel_stack[r] = << >>

\* C15: under every interleaving, http.server.request.count equals the number
\* of requests that have entered the handler - so N once N requests have
\* responded - a request has no other telemetry before its increment, and
\* llm.tokens totals, per type, the prompt and completion tokens of the
\* requests that succeed, counted once their usage has been read.
C15_CountersLoseNoUpdate ==
    /\ request_counter = Cardinality({ r \in Reqs : Entered(r) })
    /\ \A r \in Reqs : ~Entered(r) => NoTelemetryYet(r)
    /\ \A t \in {"prompt", "completion"} :
          token_counter[t] =
              SumTokens({ r \in Reqs : PastUsage(r) /\ TrueStatus(r) = 200 }, t)
    /\ (\A r \in Reqs : Responded(r)) =>
          /\ request_counter = NumReq
          /\ \A t \in {"prompt", "completion"} :
                token_counter[t] =
                    SumTokens({ r \in Reqs : response[r].status = 200 }, t)

C15_Witness ==
    /\ \A r \in Reqs : Responded(r)
    /\ response[1].status = 200 /\ response[2].status = 200
    /\ request_counter = NumReq
    /\ token_counter["prompt"] >= 2

\* Every status value the request has emitted so far: on latency observations,
\* log events, span attributes and span metadata, and on the response.
EmittedStatuses(r) ==
    { latency_hist[r][i] : i \in DOMAIN latency_hist[r] }
    \cup { log[r][i].status : i \in { j \in DOMAIN log[r] : log[r][j].status # NoStatus } }
    \cup UNION { { otel_attrs[r][sp][k] :
                     k \in {"http.status_code", "error.status_code"}
                           \cap DOMAIN otel_attrs[r][sp] } :
                   sp \in DOMAIN otel_attrs[r] }
    \cup { lf_obs[r][o].metadata["http_status"] :
             o \in { x \in DOMAIN lf_obs[r] : "http_status" \in DOMAIN lf_obs[r][x].metadata } }
    \cup (IF Responded(r) THEN { response[r].status } ELSE {})

\* C16: within a request every status value emitted - on latency observations,
\* log events, spans, span metadata and the response - is the status of the
\* request's true outcome and is emitted only after status_code was assigned;
\* status_code is assigned exactly once after its 500 default on every outcome
\* path, so 500 is emitted only for an unhandled failure.
C16_StatusConsistent ==
    \A r \in Reqs :
        /\ EmittedStatuses(r) \subseteq { TrueStatus(r) }
        /\ EmittedStatuses(r) # {} => status_writes[r] = 1
        /\ status_writes[r] <= 1
        /\ Responded(r) =>
              /\ status_writes[r] = 1
              /\ EmittedStatuses(r) = { TrueStatus(r) }
              /\ 500 \in EmittedStatuses(r) =>
                    \/ ParseRaises(body[r]) # NoExc
                    \/ upstream[r].kind = "RuntimeError"
                    \/ ReadUsage(upstream[r]).raised

C16_Witness ==
    /\ Responded(1)
    /\ upstream[1].kind = "AuthenticationError"
    /\ EmittedStatuses(1) = { 401 }
    /\ Len(latency_hist[1]) = 1
    /\ status_writes[1] = 1

\* The inference call of r succeeded and its usage record reports a zero count.
ZeroCountSuccess(r) ==
    /\ invocations[r] = 1
    /\ upstream[r].kind = "ok"
    /\ upstream[r].usage_kind # "none"
    /\ upstream[r].prompt_tokens = 0 \/ upstream[r].completion_tokens = 0

AddedTypes(r) == { token_adds[r][i].type : i \in DOMAIN token_adds[r] }

\* C17: a request whose inference call succeeded with zero prompt tokens and/or
\* zero completion tokens in its usage record responds 200, the cost of a zero
\* count is zero, and llm.tokens is incremented for a token type exactly when
\* its count is non-zero.
C17_ZeroTokensStillSucceed ==
    \A r \in Reqs : (Responded(r) /\ ZeroCountSuccess(r)) =>
        /\ response[r].status = 200
        /\ CostRecorded(r)
        /\ upstream[r].prompt_tokens = 0 => CostOf(r).input = 0
        /\ upstream[r].completion_tokens = 0 => CostOf(r).output = 0
        /\ ("prompt" \in AddedTypes(r)) <=> (upstream[r].prompt_tokens # 0)
        /\ ("completion" \in AddedTypes(r)) <=> (upstream[r].completion_tokens # 0)

DiagnosticEvents ==
    { "openai_rate_limited", "openai_auth_error", "openai_api_error", "unhandled_exception" }

\* The diagnostic event of a failure outcome, by the status of the outcome.
DiagnosticOf(status) ==
    CASE status = 429 -> "openai_rate_limited"
      [] status = 401 -> "openai_auth_error"
      [] status = 502 -> "openai_api_error"
      [] OTHER        -> "unhandled_exception"

\* The position in the log of r of the only record of event e.
PositionOf(r, e) == CHOOSE i \in DOMAIN log[r] : log[r][i].event = e

\* Event a is logged exactly once, event b exactly once, and a before b.
OnceAndBefore(r, a, b) ==
    /\ Occurrences(log[r], a) = 1
    /\ Occurrences(log[r], b) = 1
    /\ PositionOf(r, a) < PositionOf(r, b)

\* C18: when the response of a failed request is produced, the log of the
\* request holds exactly one diagnostic event, the one mapped to its outcome
\* (429 openai_rate_limited, 401 openai_auth_error, 502 openai_api_error, 500
\* unhandled_exception), before its request_error event; a request failing
\* validation holds request_bad_request before request_error and no
\* diagnostic event; nothing is logged after the response.
C18_DiagnosticBeforeRequestError ==
    /\ [](\A r \in Reqs : (pc[r] \in {"return", "responded"} /\ TrueStatus(r) # 200) =>
            IF TrueStatus(r) = 400
            THEN /\ OnceAndBefore(r, "request_bad_request", "request_error")
                 /\ \A e \in DiagnosticEvents : Occurrences(log[r], e) = 0
            ELSE /\ OnceAndBefore(r, DiagnosticOf(TrueStatus(r)), "request_error")
                 /\ \A e \in DiagnosticEvents \ { DiagnosticOf(TrueStatus(r)) } :
                        Occurrences(log[r], e) = 0)
    /\ [][\A r \in Reqs : Responded(r) => log'[r] = log[r]]_vars

C18_Witness ==
    /\ Responded(1)
    /\ upstream[1].kind = "APIConnectionError"
    /\ invocations[1] = 1
    /\ OnceAndBefore(1, "openai_api_error", "request_error")

\* The body of r carries a question that is present and not empty.
QuestionPresent(r) == ParseRaises(body[r]) = NoExc /\ Truthy(BodyGet(body[r], "question"))

\* C19: the inference collaborator is invoked at most once per request; a
\* request that has responded invoked it exactly once when its question is
\* present and non-empty and not at all otherwise; once the call has been made
\* - whether it then fails or returns - it is never made again.
C19_InferenceInvokedAtMostOnce ==
    /\ [](\A r \in Reqs :
            /\ invocations[r] <= 1
            /\ Responded(r) => invocations[r] = IF QuestionPresent(r) THEN 1 ELSE 0)
    /\ [][\A r \in Reqs : invocations[r] >= 1 => invocations'[r] = invocations[r]]_vars

C19_Witness ==
    /\ Responded(1)
    /\ QuestionPresent(1)
    /\ upstream[1].kind = "RateLimitError"
    /\ response[1].status = 429
    /\ invocations[1] = 1
    /\ Occurrences(log[1], "openai_rate_limited") = 1

\* A root span of r has been opened on some backend.
RootOpened(r) ==
    \E i \in DOMAIN span_log[r] : span_log[r][i].op = "open" /\ span_log[r][i].span = "root"

\* The question of r has been validated as present.
Validated(r) ==
    /\ QuestionPresent(r)
    /\ pc[r] \notin {"idle", "start", "open_lf_root", "open_otel_root", "parse", "validate"}

\* The request is in the generation phase.
Generating(r) == pc[r] \in {"open_generation", "call", "awaiting", "usage",
                            "close_generation", "close_llm", "success"}

\* C20 as stated: a root span is opened on a backend only after the question
\* has been validated as present, so a request with a missing or empty
\* question never opens one.
C20_RootOpenedOnlyAfterValidation ==
    \A r \in Reqs : RootOpened(r) => Validated(r)

\* C20: the root span pair is opened at request entry, before the body is
\* parsed and the question validated, and is open on both backends at the
\* validation decision; a request with a missing or empty question never
\* enters the generation phase and its only spans are the root pair, opened
\* and closed once on each backend.
C20_RootOpenedAtEntry ==
    \A r \in Reqs :
        /\ pc[r] \in {"parse", "validate"} =>
              /\ lf_stack[r] = << "root" >>
              /\ otel_stack[r] = << "root" >>
        /\ QuestionMissing(r) =>
              /\ ~Generating(r)
              /\ Responded(r) =>
                    span_log[r] = << OpenEvent("lf", "root"), OpenEvent("otel", "root"),
                                     CloseEvent("otel", "root"), CloseEvent("lf", "root") >>

C20_Witness ==
    /\ QuestionMissing(1)
    /\ pc[1] = "validate"
    /\ RootOpened(1)
    /\ otel_stack[1] = << "root" >>

====
